---- MODULE Spec2Model ----
(***************************************************************************)
(* Model of the DICOM anonymization pipeline of anonymizer_methods.py:     *)
(* discovery (GrepDicomsFromFolder), the read step (Grep_DICOM_values and  *)
(* Grep_DICOM_values_PyDicom), the write step through the library          *)
(* (Dicom_zapping_PyDicom, actual_PyDICOM_zapping, zip_DICOM_directories)  *)
(* and through the external toolkit (Dicom_zapping), createDirectories     *)
(* and zipDicom.  The file system under the root folder is part of the     *)
(* state; one behaviour is one run of read, operator edit and write on one *)
(* root folder.                                                            *)
(***************************************************************************)
EXTENDS Naturals, Sequences, FiniteSets, TLC

VARIABLES
    tool,          \* result of find_anonymizer_tool: "PyDICOM" or "DICOM_toolkit"
    root0,         \* the files under the root when the run starts: FileId -> content
    tree,          \* subdirectories existing under the root (paths below the root)
    inplace,       \* files still at their place under the root: FileId -> content
    dicom_fields,  \* the field mapping: tag -> dictionary
    dicoms_list,   \* dicoms_list of the write step
    subdirs_list,  \* subdirs_list of the write step
    staged,        \* the two staging directories and the two archives
    cmd,           \* modify_cmd and changed_fields_nb of Dicom_zapping
    idx,           \* position of the running loop
    pc,            \* position of the run
    outcome        \* "running", "returned", or the exit message / exception that ended the run

vars == <<tool, root0, tree, inplace, dicom_fields, dicoms_list, subdirs_list, staged, cmd, idx, pc, outcome>>

----------------------------------------------------------------------------
(* Bounds of the model *)

MaxFiles == 2
MaxDirs == 2
MaxReadFiles == 2

DirNames == <<"a", "b">>

(* File names are sequences of tokens (a stem, then suffixes), so that the   *)
(* regular expression of GrepDicomsFromFolder is matched token by token.     *)
CandidateNames == {<<"f1">>, <<"f2">>}
OtherNames == {<<"n", ".txt">>, <<"x", ".DS_Store", ".dcm">>}
FileNames == CandidateNames \cup OtherNames
FileNameOrder == <<(<<"f1">>), (<<"f2">>), (<<"n", ".txt">>), (<<"x", ".DS_Store", ".dcm">>)>>

Absent == "ABSENT"
NoKey == "NOKEY"

PatientName == "0010,0010"
BirthDate == "0010,0030"
Fields == {PatientName, BirthDate}

Description(name) == IF name = PatientName THEN "PatientName" ELSE "PatientBirthDate"

----------------------------------------------------------------------------
(* Contents of a file: whether a DICOM reader accepts it, and the value of   *)
(* each configured element (Absent when the file has no such element).       *)

FileValues == {Absent, "", "A"}

RawContent == [dicom |-> FALSE, val |-> [f \in Fields |-> Absent]]

(* The DICOM files of the model differ from the ordinary header (every     *)
(* element "A") in at most one element; RawContent is a file no DICOM       *)
(* reader accepts.                                                           *)
Contents ==
    {[dicom |-> TRUE, val |-> v] :
        v \in {w \in [Fields -> FileValues] : Cardinality({f \in Fields : w[f] # "A"}) <= 1}}
    \cup {RawContent}

Root == <<>>

RECURSIVE PathsUpTo(_)
PathsUpTo(n) ==
    IF n = 0 THEN {}
    ELSE LET shorter == PathsUpTo(n - 1)
         IN  shorter
             \cup {<<DirNames[i]>> : i \in 1..Len(DirNames)}
             \cup {Append(p, DirNames[i]) : p \in shorter, i \in 1..Len(DirNames)}

DirUniverse == PathsUpTo(MaxDirs)

Parent(p) == SubSeq(p, 1, Len(p) - 1)

PrefixClosed(T) == \A p \in T : Len(p) > 1 => Parent(p) \in T

(* Directly under the root the names are used in the order of DirNames     *)
(* (a root with the one subdirectory "b" is the root with "a", renamed).     *)
TopInOrder(T) == \A i \in 2..Len(DirNames) : <<DirNames[i]>> \in T => <<DirNames[i - 1]>> \in T

Trees ==
    {T \in SUBSET DirUniverse : Cardinality(T) <= MaxDirs /\ PrefixClosed(T) /\ TopInOrder(T)}

FileId(d, n) == [dir |-> d, name |-> n]

----------------------------------------------------------------------------
(* Discovery *)

RECURSIVE Flatten(_)
Flatten(ss) == IF ss = <<>> THEN <<>> ELSE Head(ss) \o Flatten(Tail(ss))

SubdirsOf(T, d) == SelectSeq(DirNames, LAMBDA n : Append(d, n) \in T)

FilesOf(F, d) == SelectSeq(FileNameOrder, LAMBDA n : FileId(d, n) \in DOMAIN F)

(* os.walk(dicom_folder, topdown=True): the directories in visiting order *)
RECURSIVE Walk(_, _), WalkEach(_, _, _)
Walk(T, d) == <<d>> \o WalkEach(T, d, SubdirsOf(T, d))
WalkEach(T, d, subs) ==
    IF subs = <<>> THEN <<>>
    ELSE Walk(T, Append(d, Head(subs))) \o WalkEach(T, d, Tail(subs))

AnchoredSuffixes == {".bmp", ".png", ".zip", ".txt", ".jpeg", ".pdf"}

(* pattern.search(dicom_file) is not None: the first six alternatives are    *)
(* anchored at the end of the name, the last one (\.DS_Store) is not.        *)
PatternSearch(n) ==
    \/ n[Len(n)] \in AnchoredSuffixes
    \/ \E i \in 1..Len(n) : n[i] = ".DS_Store"

GrepDicomsFromFolder(T, F) ==
    LET visited == Walk(T, Root)
        wanted(d) == SelectSeq(FilesOf(F, d), LAMBDA n : ~PatternSearch(n))
    IN  [exit |-> \E i \in 1..Len(visited) :
                      FilesOf(F, visited[i]) = <<>> /\ SubdirsOf(T, visited[i]) = <<>>,
         dicoms_list |-> Flatten([i \in 1..Len(visited) |->
                            [j \in 1..Len(wanted(visited[i])) |->
                                FileId(visited[i], wanted(visited[i])[j])]]),
         subdirs_list |-> Flatten([i \in 1..Len(visited) |-> SubdirsOf(T, visited[i])])]

----------------------------------------------------------------------------
(* Initial state: a root folder, the mapping of Grep_DICOM_fields, a tool *)

Places(T) == {FileId(d, n) : d \in T \cup {Root}, n \in FileNames}

FileSystems(T, n) ==
    {F \in UNION {[D -> Contents] : D \in {E \in SUBSET Places(T) : Cardinality(E) <= n}} :
        \A id \in DOMAIN F : id.name \in OtherNames => F[id] = RawContent}

Grep_DICOM_fields(editable) ==
    [name \in Fields |-> [Description |-> Description(name), Editable |-> editable[name]]]

NoArchive == [made |-> FALSE, files |-> <<>>, dirs |-> {}]

NoStaging ==
    [original_dir |-> FALSE, anonymize_dir |-> FALSE,
     original_sub |-> {}, anonymize_sub |-> {},
     original_files |-> <<>>, anonymize_files |-> <<>>,
     original_zip |-> NoArchive, anonymize_zip |-> NoArchive]

NoCmd == [set |-> <<>>, changed_fields_nb |-> 0]

Start(trees, n) ==
    /\ tool \in {"PyDICOM", "DICOM_toolkit"}
    /\ tree \in trees
    /\ inplace \in FileSystems(tree, n)
    /\ root0 = inplace
    /\ dicom_fields \in {Grep_DICOM_fields(e) : e \in [Fields -> BOOLEAN]}
    /\ dicoms_list = <<>>
    /\ subdirs_list = <<>>
    /\ staged = NoStaging
    /\ cmd = NoCmd
    /\ idx = 1
    /\ pc = "read"
    /\ outcome = "running"

Init == Start(Trees, MaxFiles)

(* The read step opens the first discovered file only: its specification  *)
(* keeps the folder shallow (no subdirectory, or one) and bounds the       *)
(* number of files on its own.                                             *)
ShallowTrees == {{}, {<<DirNames[1]>>}}

InitRead == Start(ShallowTrees, MaxReadFiles)

Stop(how) == pc' = "done" /\ outcome' = how

----------------------------------------------------------------------------
(* Read step *)

HasValue(entry) == "Value" \in DOMAIN entry

SetKey(entry, key, v) == [k \in DOMAIN entry \cup {key} |-> IF k = key THEN v ELSE entry[k]]

(* dicom_dataset.data_element(Description).value: raises when the element is absent *)
PyDicomReadable(content, name) == content.val[name] # Absent

(* re.match(".+\[(.+)\].+", result): the group needs at least one character *)
DumpMatches(content, name) == content.val[name] \notin {Absent, ""}

(* the read step without its try/except: an element the file lacks is    *)
(* stored as an empty 'Value' instead of being skipped                     *)
Grep_DICOM_values_PyDicom_NoSkip(fields, content) ==
    [name \in Fields |->
        SetKey(fields[name], "Value",
               IF content.val[name] = Absent THEN "" ELSE content.val[name])]

Grep_DICOM_values_PyDicom(fields, content) ==
    [name \in Fields |->
        IF PyDicomReadable(content, name)
        THEN SetKey(fields[name], "Value", content.val[name])
        ELSE fields[name]]

Grep_DICOM_values(fields, content) ==
    [name \in Fields |->
        IF DumpMatches(content, name)
        THEN SetKey(fields[name], "Value", content.val[name])
        ELSE fields[name]]

ReadValues ==
    /\ pc = "read"
    /\ LET found == GrepDicomsFromFolder(tree, inplace)
       IN  IF found.exit
           THEN Stop("Could not find any files") /\ UNCHANGED dicom_fields
           ELSE IF found.dicoms_list = <<>>
           THEN Stop("IndexError") /\ UNCHANGED dicom_fields
           ELSE IF ~inplace[found.dicoms_list[1]].dicom
           THEN /\ Stop(IF tool = "PyDICOM" THEN "InvalidDicomError" ELSE "CalledProcessError")
                /\ UNCHANGED dicom_fields
           ELSE /\ dicom_fields' =
                      IF tool = "PyDICOM"
                      THEN Grep_DICOM_values_PyDicom(dicom_fields, inplace[found.dicoms_list[1]])
                      ELSE Grep_DICOM_values(dicom_fields, inplace[found.dicoms_list[1]])
                /\ pc' = "edit"
                /\ UNCHANGED outcome
    /\ UNCHANGED <<tool, root0, tree, inplace, dicoms_list, subdirs_list, staged, cmd, idx>>

----------------------------------------------------------------------------
(* The operator's edit between the read step and the write step: the       *)
(* operator may type a new value into editable fields; the caller may add   *)
(* the 'Update' flag Dicom_zapping reads (True for the fields changed).     *)

NewValue == "N"

OperatorEdit ==
    /\ pc = "edit"
    /\ \E flagged \in BOOLEAN, changed \in SUBSET {n \in Fields : dicom_fields[n].Editable} :
          dicom_fields' =
              [name \in Fields |->
                  LET typed == IF name \in changed
                               THEN SetKey(dicom_fields[name], "Value", NewValue)
                               ELSE dicom_fields[name]
                  IN  IF flagged THEN SetKey(typed, "Update", name \in changed) ELSE typed]
    /\ pc' = "discover"
    /\ UNCHANGED <<tool, root0, tree, inplace, dicoms_list, subdirs_list, staged, cmd, idx, outcome>>

----------------------------------------------------------------------------
(* Write step: discovery and staging directories *)

ZapDiscover ==
    /\ pc = "discover"
    /\ LET found == GrepDicomsFromFolder(tree, inplace)
       IN  IF found.exit
           THEN Stop("Could not find any files") /\ UNCHANGED <<dicoms_list, subdirs_list>>
           ELSE /\ dicoms_list' = found.dicoms_list
                /\ subdirs_list' = found.subdirs_list
                /\ pc' = "mkdirs"
                /\ UNCHANGED outcome
    /\ UNCHANGED <<tool, root0, tree, inplace, dicom_fields, staged, cmd, idx>>

(* Index of the first entry of the list that repeats an earlier one, or 0 *)
FirstRepeat(list) ==
    LET rep == {i \in 1..Len(list) : \E j \in 1..(i - 1) : list[j] = list[i]}
    IN  IF rep = {} THEN 0 ELSE CHOOSE i \in rep : \A k \in rep : i <= k

createDirectories(fields, subdirs) ==
    IF ~HasValue(fields[PatientName])
    THEN [raised |-> "KeyError", staging |-> NoStaging]
    ELSE IF fields[PatientName]["Value"] = ""
    THEN [raised |-> "OSError", staging |-> NoStaging]
    ELSE LET made == {<<subdirs[i]>> : i \in 1..Len(subdirs)}
         IN  [raised |-> IF FirstRepeat(subdirs) = 0 THEN NoKey ELSE "OSError",
              staging |-> [NoStaging EXCEPT !.original_dir = TRUE, !.anonymize_dir = TRUE,
                                            !.original_sub = made, !.anonymize_sub = made]]

CreateDirectories ==
    /\ pc = "mkdirs"
    /\ LET res == createDirectories(dicom_fields, subdirs_list)
       IN  /\ staged' = res.staging
           /\ IF res.raised # NoKey
              THEN Stop(res.raised)
              ELSE /\ pc' = IF tool = "PyDICOM" THEN "stage" ELSE "command"
                   /\ UNCHANGED outcome
    /\ idx' = 1
    /\ UNCHANGED <<tool, root0, tree, inplace, dicom_fields, dicoms_list, subdirs_list, cmd>>

----------------------------------------------------------------------------
(* What each write path does with one field of the mapping *)

Leave == "LEAVE"

new_val(entry) == IF HasValue(entry) THEN entry["Value"] ELSE ""

(* actual_PyDICOM_zapping: the value assigned to the element of the field *)
PyDicomAssign(entry) == IF entry.Editable THEN new_val(entry) ELSE ""

(* Dicom_zapping reads entry['Update'] unless the field is non-editable with a Value *)
NeedsUpdate(entry) == ~(~entry.Editable /\ HasValue(entry))

(* Dicom_zapping: the value of the -ma option built for the field, or Leave *)
ToolkitAssign(entry) ==
    IF ~entry.Editable /\ HasValue(entry) THEN " "
    ELSE IF entry["Update"] = TRUE THEN new_val(entry)
    ELSE Leave

(* an assignment changes an element the file has; it inserts none *)
Assign(content, assign) ==
    [content EXCEPT !.val = [name \in Fields |->
        IF content.val[name] = Absent \/ assign[name] = Leave
        THEN content.val[name]
        ELSE assign[name]]]

actual_PyDICOM_zapping(content, fields) ==
    Assign(content, [name \in Fields |-> PyDicomAssign(fields[name])])

BuildCommand ==
    /\ pc = "command"
    /\ IF \E name \in Fields : NeedsUpdate(dicom_fields[name]) /\ "Update" \notin DOMAIN dicom_fields[name]
       THEN Stop("KeyError") /\ UNCHANGED cmd
       ELSE /\ cmd' = [set |-> [name \in Fields |-> ToolkitAssign(dicom_fields[name])],
                       changed_fields_nb |->
                           Cardinality({name \in Fields : ToolkitAssign(dicom_fields[name]) # Leave})]
            /\ pc' = IF dicoms_list = <<>> THEN "zip_original" ELSE "modify"
            /\ UNCHANGED outcome
    /\ UNCHANGED <<tool, root0, tree, inplace, dicom_fields, dicoms_list, subdirs_list, staged, idx>>

----------------------------------------------------------------------------
(* Write step of Dicom_zapping: one file per step *)

(* a path below a staging directory can be written when its directory is   *)
(* the staging directory itself or one createDirectories made              *)
DirMade(made, d) == d = Root \/ d \in made

Put(files, id, content) ==
    [k \in DOMAIN files \cup {id} |-> IF k = id THEN content ELSE files[k]]

Without(files, id) == [k \in DOMAIN files \ {id} |-> files[k]]

(* dcmodify on a file it can read leaves the modified file and a .bak of   *)
(* the file as it was; on a file it cannot read it leaves the file alone   *)
(* and no .bak.                                                            *)
ModifyFile ==
    /\ pc = "modify"
    /\ LET dicom == dicoms_list[idx]
           content == inplace[dicom]
       IN  IF ~DirMade(IF cmd.changed_fields_nb > 0 THEN staged.anonymize_sub
                       ELSE staged.original_sub, dicom.dir)
           THEN Stop("IOError") /\ UNCHANGED <<inplace, staged, idx>>
           ELSE /\ inplace' = Without(inplace, dicom)
                /\ staged' =
                     IF cmd.changed_fields_nb > 0
                     THEN IF content.dicom
                          THEN [staged EXCEPT
                                  !.anonymize_files = Put(@, dicom, Assign(content, cmd.set)),
                                  !.original_files = Put(@, dicom, content)]
                          ELSE [staged EXCEPT !.anonymize_files = Put(@, dicom, content)]
                     ELSE [staged EXCEPT !.original_files = Put(@, dicom, content)]
                /\ idx' = IF idx = Len(dicoms_list) THEN 1 ELSE idx + 1
                /\ pc' = IF idx = Len(dicoms_list) THEN "zip_original" ELSE "modify"
                /\ UNCHANGED outcome
    /\ UNCHANGED <<tool, root0, tree, dicom_fields, dicoms_list, subdirs_list, cmd>>

----------------------------------------------------------------------------
(* Write step of Dicom_zapping_PyDicom: staging, then zapping *)

Flat(id) == FileId(Root, id.name)

StageFile ==
    /\ pc = "stage"
    /\ IF dicoms_list = <<>>
       THEN pc' = "zip_original" /\ UNCHANGED <<inplace, staged, idx, outcome>>
       ELSE LET dicom == dicoms_list[idx]
                copied == [staged EXCEPT !.anonymize_files = Put(@, Flat(dicom), inplace[dicom])]
            IN  IF Flat(dicom) \in DOMAIN staged.original_files
                THEN /\ Stop("shutil.Error")
                     /\ staged' = copied
                     /\ UNCHANGED <<inplace, idx>>
                ELSE /\ staged' = [copied EXCEPT !.original_files = Put(@, Flat(dicom), inplace[dicom])]
                     /\ inplace' = Without(inplace, dicom)
                     /\ idx' = IF idx = Len(dicoms_list) THEN 1 ELSE idx + 1
                     /\ pc' = IF idx = Len(dicoms_list) THEN "zap" ELSE "stage"
                     /\ UNCHANGED outcome
    /\ UNCHANGED <<tool, root0, tree, dicom_fields, dicoms_list, subdirs_list, cmd>>

ZapFile ==
    /\ pc = "zap"
    /\ LET anonymize_dcm == dicoms_list[idx]
       IN  IF anonymize_dcm \notin DOMAIN staged.anonymize_files
           THEN Stop("IOError") /\ UNCHANGED <<staged, idx>>
           ELSE IF ~staged.anonymize_files[anonymize_dcm].dicom
           THEN Stop("InvalidDicomError") /\ UNCHANGED <<staged, idx>>
           ELSE /\ staged' = [staged EXCEPT !.anonymize_files[anonymize_dcm] =
                                 actual_PyDICOM_zapping(@, dicom_fields)]
                /\ idx' = IF idx = Len(dicoms_list) THEN 1 ELSE idx + 1
                /\ pc' = IF idx = Len(dicoms_list) THEN "zip_original" ELSE "zap"
                /\ UNCHANGED outcome
    /\ UNCHANGED <<tool, root0, tree, inplace, dicom_fields, dicoms_list, subdirs_list, cmd>>

----------------------------------------------------------------------------
(* Archives and cleanup *)

(* zipDicom: the staging directory as it ends, and the exit message if any *)
zipDicom(exists, files, sub) ==
    IF DOMAIN files = {} /\ sub = {}
    THEN [exit |-> "is empty and will not be archived", archive |-> NoArchive, directory |-> exists]
    ELSE [exit |-> NoKey, archive |-> [made |-> TRUE, files |-> files, dirs |-> sub],
          directory |-> FALSE]

ZipOriginal ==
    /\ pc = "zip_original"
    /\ IF ~(staged.anonymize_dir /\ staged.original_dir)
       THEN Stop("Failed to find data folders") /\ UNCHANGED staged
       ELSE LET z == zipDicom(staged.original_dir, staged.original_files, staged.original_sub)
            IN  IF z.exit # NoKey
                THEN Stop(z.exit) /\ UNCHANGED staged
                ELSE /\ staged' = [staged EXCEPT !.original_zip = z.archive,
                                                 !.original_dir = z.directory,
                                                 !.original_files = <<>>,
                                                 !.original_sub = {}]
                     /\ pc' = "zip_anonymize"
                     /\ UNCHANGED outcome
    /\ UNCHANGED <<tool, root0, tree, inplace, dicom_fields, dicoms_list, subdirs_list, cmd, idx>>

ZipAnonymize ==
    /\ pc = "zip_anonymize"
    /\ LET z == zipDicom(staged.anonymize_dir, staged.anonymize_files, staged.anonymize_sub)
       IN  IF z.exit # NoKey
           THEN Stop(z.exit) /\ UNCHANGED staged
           ELSE /\ staged' = [staged EXCEPT !.anonymize_zip = z.archive,
                                            !.anonymize_dir = z.directory,
                                            !.anonymize_files = <<>>,
                                            !.anonymize_sub = {}]
                /\ pc' = "cleanup"
                /\ UNCHANGED outcome
    /\ UNCHANGED <<tool, root0, tree, inplace, dicom_fields, dicoms_list, subdirs_list, cmd, idx>>

IsPrefix(p, q) == Len(p) <= Len(q) /\ SubSeq(q, 1, Len(p)) = p

(* shutil.rmtree(dicom_folder + os.path.sep + subdir) *)
RemoveSubdir ==
    /\ pc = "cleanup"
    /\ idx <= Len(subdirs_list)
    /\ LET target == <<subdirs_list[idx]>>
       IN  IF tool = "PyDICOM"
           THEN Stop("NameError") /\ UNCHANGED <<tree, inplace, idx>>
           ELSE IF target \notin tree
           THEN Stop("OSError") /\ UNCHANGED <<tree, inplace, idx>>
           ELSE /\ tree' = {d \in tree : ~IsPrefix(target, d)}
                /\ inplace' = [id \in {k \in DOMAIN inplace : ~IsPrefix(target, k.dir)} |-> inplace[id]]
                /\ idx' = idx + 1
                /\ UNCHANGED <<pc, outcome>>
    /\ UNCHANGED <<tool, root0, dicom_fields, dicoms_list, subdirs_list, staged, cmd>>

Return ==
    /\ pc = "cleanup"
    /\ idx > Len(subdirs_list)
    /\ Stop("returned")
    /\ UNCHANGED <<tool, root0, tree, inplace, dicom_fields, dicoms_list, subdirs_list, staged, cmd, idx>>

Next ==
    \/ ReadValues
    \/ OperatorEdit
    \/ ZapDiscover
    \/ CreateDirectories
    \/ BuildCommand
    \/ ModifyFile
    \/ StageFile
    \/ ZapFile
    \/ ZipOriginal
    \/ ZipAnonymize
    \/ RemoveSubdir
    \/ Return

Spec == Init /\ [][Next]_vars

SpecRead == InitRead /\ [][Next]_vars

----------------------------------------------------------------------------
(* Properties *)

IsBlank(v) == v \in {Absent, "", " "}

Discovered == {dicoms_list[i] : i \in 1..Len(dicoms_list)}

(* the write loops are over and nothing is archived yet *)
WriteDone == pc = "zip_original"

(* C1: after the write step, in every anonymized copy every field whose    *)
(* Editable flag is false is blank, whether or not the mapping holds a     *)
(* 'Value' for it.                                                         *)
C1_NonEditableBlanked ==
    WriteDone =>
        \A d \in DOMAIN staged.anonymize_files : \A name \in Fields :
            ~dicom_fields[name].Editable => IsBlank(staged.anonymize_files[d].val[name])

(* C2: after the write step, in every anonymized copy an editable field    *)
(* the operator supplied a value for holds that value (when the file has   *)
(* the element), and an editable field with no 'Value' in the mapping      *)
(* holds the value it had in the file.                                     *)
C2_EditableSetOrKept ==
    WriteDone =>
        \A d \in DOMAIN staged.anonymize_files \cap Discovered : \A name \in Fields :
            dicom_fields[name].Editable =>
                IF HasValue(dicom_fields[name])
                THEN (dicom_fields[name]["Value"] = NewValue /\ root0[d].val[name] # Absent)
                        => staged.anonymize_files[d].val[name] = NewValue
                ELSE staged.anonymize_files[d].val[name] = root0[d].val[name]

ExcludedSuffixes == AnchoredSuffixes \cup {".DS_Store"}

EndsInExcluded(n) == n[Len(n)] \in ExcludedSuffixes

(* C3: the list discovery returns holds exactly the files under the root,  *)
(* at any depth, whose name does not end in an excluded extension, each    *)
(* once.                                                                   *)
C3_ExactlyTheCandidates ==
    pc = "mkdirs" =>
        /\ Discovered = {id \in DOMAIN root0 : ~EndsInExcluded(id.name)}
        /\ \A i, j \in 1..Len(dicoms_list) : dicoms_list[i] = dicoms_list[j] => i = j

NoFilesMessage == "Could not find any files"

Candidates(F) == {id \in DOMAIN F : ~PatternSearch(id.name)}

(* C4: the run exits with the 'Could not find any files' message exactly   *)
(* when no input file exists under the root.                               *)
C4_NoFilesIsFatal ==
    pc # "read" => (outcome = NoFilesMessage <=> Candidates(root0) = {})

HasArchive(zip) == zip.made

ArchiveFiles(zip) == zip.files

Staging == pc \in {"stage", "zap", "command", "modify", "zip_original", "zip_anonymize", "cleanup"}

(* C5: when the routine returns, both archives exist and, for every        *)
(* discovered file, the original archive holds the untouched file and the  *)
(* anonymized archive holds a copy, both at the file's path relative to    *)
(* the root.                                                               *)
C5_BothCopiesArchived ==
    outcome = "returned" =>
        /\ HasArchive(staged.original_zip) /\ HasArchive(staged.anonymize_zip)
        /\ \A d \in Discovered :
              /\ d \in DOMAIN ArchiveFiles(staged.original_zip)
              /\ ArchiveFiles(staged.original_zip)[d] = root0[d]
              /\ d \in DOMAIN ArchiveFiles(staged.anonymize_zip)

(* C6: a staging directory is gone only once its archive exists, a run     *)
(* that returns leaves two archives that hold files, and a run of          *)
(* Dicom_zapping that changes no field does not end with one archive only. *)
C6_NoEmptyArchive ==
    /\ (Staging \/ outcome = "returned") =>
          /\ ~staged.original_dir => HasArchive(staged.original_zip)
          /\ ~staged.anonymize_dir => HasArchive(staged.anonymize_zip)
    /\ outcome = "returned" =>
          /\ DOMAIN ArchiveFiles(staged.original_zip) # {}
          /\ DOMAIN ArchiveFiles(staged.anonymize_zip) # {}
    /\ (pc = "done" /\ tool = "DICOM_toolkit" /\ cmd.changed_fields_nb = 0)
          => (HasArchive(staged.original_zip) <=> HasArchive(staged.anonymize_zip))

FirstDiscovered == GrepDicomsFromFolder(tree, inplace).dicoms_list[1]

(* what a read step that ends normally does, given which values of the    *)
(* first discovered file it is to store                                    *)
ReadStepStores(stored(_)) ==
    (pc = "read" /\ pc' = "edit") =>
        /\ inplace' = inplace /\ tree' = tree /\ staged' = staged
        /\ \A name \in Fields :
              /\ dicom_fields'[name].Description = dicom_fields[name].Description
              /\ dicom_fields'[name].Editable = dicom_fields[name].Editable
              /\ IF stored(inplace[FirstDiscovered].val[name])
                 THEN /\ DOMAIN dicom_fields'[name] = DOMAIN dicom_fields[name] \cup {"Value"}
                      /\ dicom_fields'[name]["Value"] = inplace[FirstDiscovered].val[name]
                 ELSE dicom_fields'[name] = dicom_fields[name]

PresentInFile(v) == v # Absent

StoredByTool(v) == v # Absent /\ (tool = "PyDICOM" \/ v # "")

(* C7 as claimed: the read step stores under 'Value' the value of every   *)
(* configured field present in the first discovered file, leaves the      *)
(* entry of a missing field as it is, and changes no Description, no      *)
(* Editable flag and no file.                                             *)
C7_ReadStepAsClaimed == [][ReadStepStores(PresentInFile)]_vars

(* C7 amended: the read step stores under 'Value' the value of every      *)
(* configured field present in the first discovered file, except that     *)
(* Grep_DICOM_values (dcmdump) skips a field that is present with an      *)
(* empty value; the entry of a skipped or missing field is left as it is, *)
(* and no Description, no Editable flag and no file is changed.           *)
C7_ReadStep == [][ReadStepStores(StoredByTool)]_vars

(* the read step has run with the executable on a first file that holds   *)
(* a patient name and an empty birth date; another file holds a birth date *)
C7_Witness ==
    /\ pc = "edit"
    /\ tool = "DICOM_toolkit"
    /\ inplace[FirstDiscovered].val[PatientName] = "A"
    /\ inplace[FirstDiscovered].val[BirthDate] = ""
    /\ HasValue(dicom_fields[PatientName])
    /\ ~HasValue(dicom_fields[BirthDate])
    /\ \E d \in DOMAIN inplace : inplace[d].val[BirthDate] = "A"

Decision(v) == IF v = Leave THEN "leave" ELSE IF IsBlank(v) THEN "blank" ELSE "set"

(* C8: for the mapping handed to the write step, both write paths decide   *)
(* the same for every field (blank, set, leave), and the executable path   *)
(* reads no key of the mapping the library path does without.              *)
C8_SameDecisions ==
    pc = "discover" =>
        \A name \in Fields :
            IF NeedsUpdate(dicom_fields[name]) /\ "Update" \notin DOMAIN dicom_fields[name]
            THEN FALSE
            ELSE Decision(PyDicomAssign(dicom_fields[name]))
                    = Decision(ToolkitAssign(dicom_fields[name]))

BothArchived == HasArchive(staged.original_zip) /\ HasArchive(staged.anonymize_zip)

(* C9: once both archives exist the run ends by returning, and then no     *)
(* subdirectory discovery enumerated and no staging directory is left      *)
(* under the root.                                                         *)
C9_CleanupCompletes ==
    (BothArchived /\ pc = "done") =>
        /\ outcome = "returned"
        /\ tree = {}
        /\ ~staged.original_dir /\ ~staged.anonymize_dir

(* C10: at every point of the run the unmodified content of every input    *)
(* file is at its place under the root, in the original staging directory  *)
(* or in the original archive.                                             *)
C10_NoDataLost ==
    \A d \in Candidates(root0) :
        \/ d \in DOMAIN inplace /\ inplace[d] = root0[d]
        \/ \E k \in DOMAIN staged.original_files :
              k.name = d.name /\ staged.original_files[k] = root0[d]
        \/ \E k \in DOMAIN ArchiveFiles(staged.original_zip) :
              k.name = d.name /\ ArchiveFiles(staged.original_zip)[k] = root0[d]

====
